---- MODULE Spec2Model ----
(***************************************************************************)
(* send_mail.smtp_sender: EmailSender.__init__, EmailSender.send, the      *)
(* legacy function send_email and the recipient normalisation              *)
(* _ensure_list, driven as tests/test_send.py drives them: the class API   *)
(* first, then the legacy function with the same arguments against the     *)
(* same SMTP collaborator.                                                 *)
(*                                                                         *)
(* Python values: an Optional[str] is <<>> (None) or <<s>>; a recipient    *)
(* string is a sequence of one-character strings, so that split and strip  *)
(* are computed; a recipient list is a sequence of such strings.           *)
(***************************************************************************)
EXTENDS Integers, Sequences, FiniteSets, TLC

VARIABLES
    args,       \* keyword arguments of the two calls (connection + message)
    params,     \* parameters bound by the call of send in progress
    env,        \* behaviour of the SMTP collaborator: call site -> outcome
    todo,       \* the APIs still to be called, in order
    api,        \* the API of the call in progress
    pc,         \* position in __init__ / send
    self,       \* fields of the EmailSender instance
    to_addrs,   \* local of send: normalised recipients
    msg,        \* local of send: the EmailMessage under construction
    idx,        \* local of send: position in the attachments loop
    calls,      \* names of the transport calls made, in order
    session,    \* constructor and arguments the transport was opened with
    logged_in,  \* credentials handed to login, in order
    sent,       \* messages handed to send_message, in order
    pending,    \* exception in flight while the finally block runs
    raised,     \* exception surfaced to the caller of the finished call
    history     \* one record per finished call

vars == <<args, params, env, todo, api, pc, self, to_addrs, msg, idx, calls, session,
          logged_in, sent, pending, raised, history>>

----------------------------------------------------------------------------
(* Bounds of the model *)

MaxStrLen == 3
MaxListLen == 2
MaxAttach == 2

(* Program constants *)

DefaultPort == 587
DefaultTimeout == 10

----------------------------------------------------------------------------
(* Python values *)

None == <<>>
Some(s) == <<s>>
Opt(S) == {None} \cup {Some(s) : s \in S}

\* truth value of an Optional[str]: None and "" are falsy
Truthy(o) == o # None /\ o[1] # ""

\* Python's `a or b`
PyOr(a, b) == IF Truthy(a) THEN a ELSE b

NoErr == [type |-> "none", at |-> "none"]
Err(t, s) == [type |-> t, at |-> s]

----------------------------------------------------------------------------
(* Strings as sequences of characters *)

Chars == {"a", " ", ","}
AddrChars == {"a", " "}

RECURSIVE SeqsUpTo(_, _)
SeqsUpTo(S, n) ==
    IF n = 0 THEN {<<>>}
    ELSE LET shorter == SeqsUpTo(S, n - 1)
         IN  shorter \cup {Append(s, c) : s \in {t \in shorter : Len(t) = n - 1}, c \in S}

IsSpace(c) == c = " "

RECURSIVE lstrip(_)
lstrip(s) == IF s # <<>> /\ IsSpace(Head(s)) THEN lstrip(Tail(s)) ELSE s

RECURSIVE rstrip(_)
rstrip(s) ==
    IF s # <<>> /\ IsSpace(s[Len(s)]) THEN rstrip(SubSeq(s, 1, Len(s) - 1)) ELSE s

\* str.strip()
strip(s) == rstrip(lstrip(s))

\* str.split(","): always at least one piece
RECURSIVE split(_)
split(s) ==
    IF \A i \in 1..Len(s) : s[i] # ","
    THEN <<s>>
    ELSE LET k == CHOOSE i \in 1..Len(s) : s[i] = "," /\ \A j \in 1..(i - 1) : s[j] # ","
         IN  <<SubSeq(s, 1, k - 1)>> \o split(SubSeq(s, k + 1, Len(s)))

\* sep.join(parts)
RECURSIVE join(_, _)
join(sep, parts) ==
    IF parts = <<>> THEN <<>>
    ELSE IF Len(parts) = 1 THEN parts[1]
    ELSE parts[1] \o sep \o join(sep, Tail(parts))

\* [r.strip() for r in pieces if r.strip()]
RECURSIVE StripNonEmpty(_)
StripNonEmpty(pieces) ==
    IF pieces = <<>> THEN <<>>
    ELSE (IF strip(Head(pieces)) # <<>> THEN <<strip(Head(pieces))>> ELSE <<>>)
         \o StripNonEmpty(Tail(pieces))

(* A recipients argument: kind "none" (None), "str" (val = <<the string>>)  *)
(* or "list" (val = the list).                                              *)
RecipNone == [kind |-> "none", val |-> <<>>]
RecipStr(s) == [kind |-> "str", val |-> <<s>>]
RecipList(L) == [kind |-> "list", val |-> L]

\* _ensure_list(recipients)
_ensure_list(r) ==
    IF r.kind = "list"
    THEN r.val
    ELSE StripNonEmpty(split(r.val[1]))

----------------------------------------------------------------------------
(* Collaborators: filesystem, mimetypes, smtplib *)

Files == {"/tmp/a.txt", "/tmp/blob"}
Dirs == {"/tmp"}

\* os.path.exists in place of os.path.isfile: a directory passes
exists(path) == path \in Files \cup Dirs

\* os.path.isfile(path)
isfile(path) == path \in Files

\* os.path.basename(path)
basename(path) ==
    CASE path = "/tmp/a.txt" -> "a.txt"
      [] path = "/tmp/blob" -> "blob"
      [] OTHER -> "file"

\* mimetypes.guess_type(path)[0]
guess_type(path) == IF path = "/tmp/a.txt" THEN Some("text/plain") ELSE None

\* ctype with the application/octet-stream fallback, split on "/"
ContentType(path) ==
    IF guess_type(path) = None
    THEN [maintype |-> "application", subtype |-> "octet-stream"]
    ELSE [maintype |-> "text", subtype |-> "plain"]

Sites == {"connect", "ehlo1", "starttls", "ehlo2", "login", "send_message", "quit", "close"}
ErrorKinds == {"SMTPResponseException", "SMTPServerDisconnected"}
Outcomes == {"ok"} \cup ErrorKinds

\* the except clauses of the finally block
IsSMTPResponseException(kind) == kind = "SMTPResponseException"

\* the collaborator answers call site s with outcome o; the same site answers
\* the same way in the second call
Reply(s, o) ==
    /\ o \in Outcomes
    /\ env[s] \in {"unset", o}
    /\ env' = [env EXCEPT ![s] = o]

----------------------------------------------------------------------------
(* EmailSender.__init__ *)

\* sender falls back to the placeholder without trying the username
EmailSender__init__no_username(smtp_server, smtp_port, username, password, use_tls, use_ssl, sender, timeout) ==
    [smtp_server |-> smtp_server,
     smtp_port |-> smtp_port,
     username |-> username,
     password |-> password,
     use_tls |-> use_tls,
     use_ssl |-> use_ssl,
     sender |-> PyOr(sender, Some("noreply@example.com"))[1],
     timeout |-> timeout]

EmailSender__init__(smtp_server, smtp_port, username, password, use_tls, use_ssl, sender, timeout) ==
    [smtp_server |-> smtp_server,
     smtp_port |-> smtp_port,
     username |-> username,
     password |-> password,
     use_tls |-> use_tls,
     use_ssl |-> use_ssl,
     sender |-> PyOr(sender, PyOr(username, Some("noreply@example.com")))[1],
     timeout |-> timeout]

\* sender = EmailSender(...) as the caller of the class API writes it
ClassSender(a) ==
    EmailSender__init__(a.smtp_server, a.smtp_port, a.username, a.password,
                        a.use_tls, a.use_ssl, a.sender, a.timeout)

\* send_email handing its arguments over in its own parameter order
\* (smtp_server, smtp_port, sender, ...), so that sender lands in username
LegacySender_positional(a) ==
    EmailSender__init__(a.smtp_server, a.smtp_port, a.sender, a.password,
                        a.use_tls, a.use_ssl, a.username, a.timeout)

\* sender = EmailSender(smtp_server=smtp_server, ...) inside send_email
LegacySender(a) ==
    EmailSender__init__(a.smtp_server, a.smtp_port, a.username, a.password,
                        a.use_tls, a.use_ssl, a.sender, a.timeout)

\* the parameters send binds from the caller's keyword arguments
SendParams(a) ==
    [recipients |-> a.recipients,
     subject |-> a.subject,
     body |-> a.body,
     html |-> a.html,
     attachments |-> a.attachments]

NoParams == <<>>
NoSelf == <<>>
NoMsg == <<>>

----------------------------------------------------------------------------
(* Calls *)

FreshLocals ==
    /\ to_addrs' = <<>>
    /\ msg' = NoMsg
    /\ idx' = 1
    /\ calls' = <<>>
    /\ session' = None
    /\ logged_in' = <<>>
    /\ sent' = <<>>
    /\ pending' = NoErr
    /\ raised' = NoErr

\* the call in progress ends, surfacing e (NoErr: it returns normally)
Finished(e) ==
    /\ pc' = "returned"
    /\ raised' = e
    /\ history' = Append(history,
                         [api |-> api, calls |-> calls', session |-> session',
                          logged_in |-> logged_in', sent |-> sent', raised |-> e])

\* sender = EmailSender(...)  (class API)
NewEmailSender ==
    /\ pc \in {"idle", "returned"}
    /\ todo # <<>> /\ Head(todo) = "EmailSender"
    /\ todo' = Tail(todo)
    /\ api' = "EmailSender"
    /\ self' = ClassSender(args)
    /\ params' = NoParams
    /\ pc' = "constructed"
    /\ FreshLocals
    /\ UNCHANGED <<args, env, history>>

\* sender.send(...)  (class API)
CallSend ==
    /\ pc = "constructed"
    /\ params' = SendParams(args)
    /\ pc' = "recipients"
    /\ UNCHANGED <<args, env, todo, api, self, to_addrs, msg, idx, calls, session,
                   logged_in, sent, pending, raised, history>>

\* send_email(...): constructs the sender and calls send
send_email ==
    /\ pc \in {"idle", "returned"}
    /\ todo # <<>> /\ Head(todo) = "send_email"
    /\ todo' = Tail(todo)
    /\ api' = "send_email"
    /\ self' = LegacySender(args)
    /\ params' = SendParams(args)
    /\ pc' = "recipients"
    /\ FreshLocals
    /\ UNCHANGED <<args, env, history>>

----------------------------------------------------------------------------
(* EmailSender.send, one action per step *)

\* the login step left out
AfterTLS_no_login == "send_message"

\* where the try block goes after the STARTTLS section
AfterTLS == IF Truthy(self.username) THEN "login" ELSE "send_message"

\* `if self.use_tls:` without `not self.use_ssl`
TryStart_ignoring_ssl == IF self.use_tls THEN "ehlo1" ELSE AfterTLS

\* STARTTLS without the EHLO before it
TryStart_no_ehlo == IF ~self.use_ssl /\ self.use_tls THEN "starttls" ELSE AfterTLS

\* where the try block starts
TryStart == IF ~self.use_ssl /\ self.use_tls THEN "ehlo1" ELSE AfterTLS

\* the error of a step is recorded but the try block carries on to transmit
RaiseInTry_carry_on(e) ==
    /\ pending' = e
    /\ pc' = "send_message"

\* a statement of the try block raised e: the finally block runs with e in flight
RaiseInTry(e) ==
    /\ pending' = e
    /\ pc' = "quit"

\* recipients is None / to_addrs = _ensure_list(recipients) / not to_addrs
Send_recipients ==
    /\ pc = "recipients"
    /\ UNCHANGED <<args, params, env, todo, api, self, msg, idx, calls, session,
                   logged_in, sent, pending>>
    /\ IF params.recipients.kind = "none"
       THEN /\ to_addrs' = to_addrs
            /\ Finished(Err("ValueError", "recipients"))
       ELSE /\ to_addrs' = _ensure_list(params.recipients)
            /\ IF to_addrs' = <<>>
               THEN Finished(Err("ValueError", "recipients"))
               ELSE /\ pc' = "build"
                    /\ UNCHANGED <<raised, history>>

\* msg = EmailMessage(); headers; body
Send_build ==
    /\ pc = "build"
    /\ msg' = [From |-> self.sender,
               To |-> join(<<",", " ">>, to_addrs),
               Subject |-> params.subject,
               body |-> params.body,
               subtype |-> IF params.html THEN "html" ELSE "plain",
               attachments |-> <<>>]
    /\ pc' = IF params.attachments # None /\ params.attachments[1] # <<>>
             THEN "attach" ELSE "open"
    /\ UNCHANGED <<args, params, env, todo, api, self, to_addrs, idx, calls, session,
                   logged_in, sent, pending, raised, history>>

\* one iteration of `for path in attachments`
Send_attach ==
    /\ pc = "attach"
    /\ UNCHANGED <<args, params, env, todo, api, self, to_addrs, calls, session,
                   logged_in, sent, pending>>
    /\ LET path == params.attachments[1][idx]
       IN  IF ~isfile(path)
           THEN /\ UNCHANGED <<msg, idx>>
                /\ Finished(Err("FileNotFoundError", "attachments"))
           ELSE /\ msg' = [msg EXCEPT !.attachments =
                              Append(@, [filename |-> basename(path),
                                         maintype |-> ContentType(path).maintype,
                                         subtype |-> ContentType(path).subtype,
                                         data |-> path])]
                /\ idx' = idx + 1
                /\ pc' = IF idx < Len(params.attachments[1]) THEN "attach" ELSE "open"
                /\ UNCHANGED <<raised, history>>

\* smtp_class chosen by use_ssl
smtp_class == IF self.use_ssl THEN "SMTP_SSL" ELSE "SMTP"

\* server = smtp_class(self.smtp_server, self.smtp_port, timeout=self.timeout)
Send_open ==
    /\ pc = "open"
    /\ UNCHANGED <<args, params, todo, api, self, to_addrs, msg, idx, logged_in, sent,
                   pending>>
    /\ calls' = Append(calls, smtp_class)
    /\ \E o \in Outcomes :
         /\ Reply("connect", o)
         /\ IF o = "ok"
            THEN /\ session' = Some([class |-> smtp_class, host |-> self.smtp_server,
                                     port |-> self.smtp_port, timeout |-> self.timeout])
                 /\ pc' = TryStart
                 /\ UNCHANGED <<raised, history>>
            ELSE /\ session' = session
                 /\ Finished(Err(o, "connect"))

\* server.ehlo() before STARTTLS
Send_ehlo1 ==
    /\ pc = "ehlo1"
    /\ UNCHANGED <<args, params, todo, api, self, to_addrs, msg, idx, session,
                   logged_in, sent, raised, history>>
    /\ calls' = Append(calls, "ehlo")
    /\ \E o \in Outcomes :
         /\ Reply("ehlo1", o)
         /\ IF o = "ok"
            THEN pc' = "starttls" /\ pending' = pending
            ELSE RaiseInTry(Err(o, "ehlo1"))

\* server.starttls()
Send_starttls ==
    /\ pc = "starttls"
    /\ UNCHANGED <<args, params, todo, api, self, to_addrs, msg, idx, session,
                   logged_in, sent, raised, history>>
    /\ calls' = Append(calls, "starttls")
    /\ \E o \in Outcomes :
         /\ Reply("starttls", o)
         /\ IF o = "ok"
            THEN pc' = "ehlo2" /\ pending' = pending
            ELSE RaiseInTry(Err(o, "starttls"))

\* server.ehlo() after STARTTLS
Send_ehlo2 ==
    /\ pc = "ehlo2"
    /\ UNCHANGED <<args, params, todo, api, self, to_addrs, msg, idx, session,
                   logged_in, sent, raised, history>>
    /\ calls' = Append(calls, "ehlo")
    /\ \E o \in Outcomes :
         /\ Reply("ehlo2", o)
         /\ IF o = "ok"
            THEN pc' = AfterTLS /\ pending' = pending
            ELSE RaiseInTry(Err(o, "ehlo2"))

\* server.login(self.username, self.password or "")
Send_login ==
    /\ pc = "login"
    /\ UNCHANGED <<args, params, todo, api, self, to_addrs, msg, idx, session, sent,
                   raised, history>>
    /\ calls' = Append(calls, "login")
    /\ logged_in' = Append(logged_in, <<self.username[1], PyOr(self.password, Some(""))[1]>>)
    /\ \E o \in Outcomes :
         /\ Reply("login", o)
         /\ IF o = "ok"
            THEN pc' = "send_message" /\ pending' = pending
            ELSE RaiseInTry(Err(o, "login"))

\* server.send_message(msg), the last statement of the try block
Send_send_message ==
    /\ pc = "send_message"
    /\ UNCHANGED <<args, params, todo, api, self, to_addrs, msg, idx, session,
                   logged_in, raised, history>>
    /\ calls' = Append(calls, "send_message")
    /\ \E o \in Outcomes :
         /\ Reply("send_message", o)
         /\ IF o = "ok"
            THEN /\ sent' = Append(sent, msg)
                 /\ pc' = "quit"
                 /\ pending' = pending
            ELSE /\ sent' = sent
                 /\ RaiseInTry(Err(o, "send_message"))

\* finally: server.quit(), except smtplib.SMTPResponseException
Send_quit ==
    /\ pc = "quit"
    /\ UNCHANGED <<args, params, todo, api, self, to_addrs, msg, idx, pending>>
    /\ calls' = Append(calls, "quit")
    /\ UNCHANGED <<session, logged_in, sent>>
    /\ \E o \in Outcomes :
         /\ Reply("quit", o)
         /\ IF o = "ok"
            THEN Finished(pending)
            ELSE IF IsSMTPResponseException(o)
                 THEN pc' = "close" /\ UNCHANGED <<raised, history>>
                 ELSE Finished(Err(o, "quit"))

\* server.close() in the handler, except smtplib.SMTPResponseException: pass
Send_close ==
    /\ pc = "close"
    /\ UNCHANGED <<args, params, todo, api, self, to_addrs, msg, idx, pending>>
    /\ calls' = Append(calls, "close")
    /\ UNCHANGED <<session, logged_in, sent>>
    /\ \E o \in Outcomes :
         /\ Reply("close", o)
         /\ IF o = "ok" \/ IsSMTPResponseException(o)
            THEN Finished(pending)
            ELSE Finished(Err(o, "close"))

----------------------------------------------------------------------------
(* Inputs *)

Strings == SeqsUpTo(Chars, MaxStrLen)
Addresses == SeqsUpTo(AddrChars, MaxStrLen - 1)

\* every recipients argument within the bounds
AllRecipients ==
    {RecipNone}
        \cup {RecipStr(s) : s \in Strings}
        \cup {RecipList(L) : L \in SeqsUpTo(Addresses, MaxListLen)}

\* the recipients of the protocol scenarios
ScenarioRecipients ==
    {RecipNone, RecipStr(<<>>), RecipStr(<<"a">>), RecipList(<<>>),
     RecipList(<<<<"a">>>>), RecipList(<<<<" ">>>>)}

\* attachment lists over a regular file, a directory and a missing path
ScenarioAttachments == Opt(SeqsUpTo({"/tmp/a.txt", "/tmp", "/no/such/file"}, MaxAttach))

ArgSpace(users, passwords, senders, tls, ssl, recips, htmls, attachs) ==
    [smtp_server : {"smtp.example"},
     smtp_port : {DefaultPort},
     username : users,
     password : passwords,
     use_tls : tls,
     use_ssl : ssl,
     sender : senders,
     timeout : {DefaultTimeout},
     recipients : recips,
     subject : {"hi"},
     body : {"hello"},
     html : htmls,
     attachments : attachs]

InitWith(space) ==
    /\ args \in space
    /\ params = NoParams
    /\ env = [s \in Sites |-> "unset"]
    /\ todo = <<"EmailSender", "send_email">>
    /\ api = "none"
    /\ pc = "idle"
    /\ self = NoSelf
    /\ to_addrs = <<>>
    /\ msg = NoMsg
    /\ idx = 1
    /\ calls = <<>>
    /\ session = None
    /\ logged_in = <<>>
    /\ sent = <<>>
    /\ pending = NoErr
    /\ raised = NoErr
    /\ history = <<>>

Init ==
    InitWith(ArgSpace(Opt({"", "user"}), Opt({"", "pass"}), Opt({"", "me@example.com"}),
                      BOOLEAN, BOOLEAN, ScenarioRecipients, BOOLEAN, ScenarioAttachments))

InitRecipients ==
    InitWith(ArgSpace({None, Some("user")}, {Some("pass")}, {Some("me@example.com")},
                      {TRUE}, {FALSE}, AllRecipients, BOOLEAN,
                      {None, Some(<<"/tmp/blob">>)}))

Next ==
    \/ NewEmailSender
    \/ CallSend
    \/ send_email
    \/ Send_recipients
    \/ Send_build
    \/ Send_attach
    \/ Send_open
    \/ Send_ehlo1
    \/ Send_starttls
    \/ Send_ehlo2
    \/ Send_login
    \/ Send_send_message
    \/ Send_quit
    \/ Send_close

Spec == Init /\ [][Next]_vars

SpecRecipients == InitRecipients /\ [][Next]_vars

----------------------------------------------------------------------------
(* Vocabulary of the properties *)

\* the positions of the calls named name in the call log
Positions(name) == {i \in 1..Len(calls) : calls[i] = name}

\* a call of send is in progress or has finished
InSend == pc \notin {"idle", "constructed"}

\* a transport constructor was called
ConstructorCalled == Positions("SMTP") \cup Positions("SMTP_SSL") # {}

\* the transport was opened: the constructor returned a session
Opened == session # None

\* the recipients check of send lets r through
Accepted(r) == r.kind # "none" /\ _ensure_list(r) # <<>>

\* the attachments argument holds a path that is no regular file
HasMissing(att) == att # None /\ \E i \in 1..Len(att[1]) : att[1][i] \notin Files

\* no step of the collaborator has failed
NoFailure == \A s \in Sites : env[s] \in {"unset", "ok"}

\* the entries of L trimmed, the empty ones dropped, order and duplicates kept
TrimmedNonEmpty(L) ==
    SelectSeq([i \in 1..Len(L) |-> strip(L[i])], LAMBDA e : e # <<>>)

\* r holds no non-empty address: None, a string of commas and whitespace
\* only, or a list of blank entries
NoAddress(r) ==
    \/ r.kind = "none"
    \/ r.kind = "str" /\ \A i \in 1..Len(r.val[1]) : r.val[1][i] \in {" ", ","}
    \/ r.kind = "list" /\ \A i \in 1..Len(r.val) : \A j \in 1..Len(r.val[i]) : IsSpace(r.val[i][j])

----------------------------------------------------------------------------
(* C1: a send whose attachments hold a path that is no existing regular    *)
(* file, with recipients that pass, never calls a transport constructor    *)
(* and ends with FileNotFoundError.                                        *)
C1_MissingAttachmentNoTransport ==
    (InSend /\ Accepted(params.recipients) /\ HasMissing(params.attachments))
        => /\ ~ConstructorCalled
           /\ ~Opened
           /\ pc \in {"recipients", "build", "attach", "returned"}
           /\ pc = "returned" => raised = Err("FileNotFoundError", "attachments")

\* the missing path comes second, after a file that was attached
C1_Witness ==
    /\ pc = "returned"
    /\ raised = Err("FileNotFoundError", "attachments")
    /\ params.attachments = Some(<<"/tmp/a.txt", "/no/such/file">>)
    /\ Len(msg.attachments) = 1
    /\ calls = <<>>

(* C2: a send whose recipients hold no non-empty address ends with         *)
(* ValueError and never calls a transport constructor.                     *)
C2_EmptyRecipientsRejected ==
    (InSend /\ NoAddress(params.recipients))
        => /\ ~ConstructorCalled
           /\ pc = "returned" => raised = Err("ValueError", "recipients")

(* C3: with use_ssl set, starttls is never called, the transport is opened *)
(* with SMTP_SSL only, and the message is transmitted when no step fails.  *)
C3_NoStarttlsUnderSSL ==
    (InSend /\ self.use_ssl)
        => /\ Positions("starttls") = {}
           /\ Positions("SMTP") = {}
           /\ Opened => session[1].class = "SMTP_SSL"
           /\ (pc = "returned" /\ ConstructorCalled /\ NoFailure)
                  => /\ Positions("SMTP_SSL") = {1}
                     /\ sent = <<msg>>
                     /\ raised = NoErr

C3_Witness ==
    /\ pc = "returned"
    /\ self.use_ssl /\ self.use_tls
    /\ calls # <<>> /\ calls[1] = "SMTP_SSL"
    /\ sent = <<msg>>
    /\ raised = NoErr

(* C4, as claimed: with use_ssl = false and use_tls = true, every send     *)
(* that opened the transport called starttls exactly once, with an ehlo    *)
(* right before and right after it, all before any login or send_message.  *)
C4_StarttlsExactlyOnce ==
    (pc = "returned" /\ Opened /\ ~self.use_ssl /\ self.use_tls)
        => /\ Cardinality(Positions("starttls")) = 1
           /\ \A k \in Positions("starttls") :
                /\ k > 1 /\ calls[k - 1] = "ehlo"
                /\ k < Len(calls) /\ calls[k + 1] = "ehlo"
                /\ \A i \in Positions("login") \cup Positions("send_message") : i > k + 1

(* C4, amended: starttls is called at most once and only right after an    *)
(* ehlo; login and send_message are called only after a starttls that an   *)
(* ehlo follows; when the first ehlo succeeds starttls is called exactly   *)
(* once, and when starttls succeeds an ehlo follows it at once.            *)
C4_StarttlsOnceWhenEhloSucceeds ==
    (InSend /\ Opened /\ ~self.use_ssl /\ self.use_tls)
        => /\ Cardinality(Positions("starttls")) <= 1
           /\ \A k \in Positions("starttls") : k > 1 /\ calls[k - 1] = "ehlo"
           /\ \A i \in Positions("login") \cup Positions("send_message") :
                \E k \in Positions("starttls") : k + 1 < i /\ calls[k + 1] = "ehlo"
           /\ (pc = "returned" /\ env["ehlo1"] = "ok")
                  => Cardinality(Positions("starttls")) = 1
           /\ (pc = "returned" /\ env["ehlo1"] = "ok" /\ env["starttls"] = "ok")
                  => \A k \in Positions("starttls") :
                        k < Len(calls) /\ calls[k + 1] = "ehlo"

C4_Witness ==
    /\ pc = "returned"
    /\ ~self.use_ssl /\ self.use_tls
    /\ calls = <<"SMTP", "ehlo", "starttls", "ehlo", "login", "send_message", "quit">>
    /\ raised = NoErr

(* C5: once the steps before authentication have succeeded, a sender with  *)
(* a (non-empty) username has called login exactly once, before            *)
(* send_message, with the username and the configured password, "" when    *)
(* none was given; a sender without one never calls login.                 *)
C5_LoginIffUsername ==
    /\ (InSend /\ ~Truthy(args.username))
           => Positions("login") = {} /\ logged_in = <<>>
    /\ (/\ pc \in {"send_message", "quit", "close", "returned"}
        /\ Opened
        /\ \A s \in {"ehlo1", "starttls", "ehlo2"} : env[s] \in {"unset", "ok"}
        /\ Truthy(args.username))
           => /\ Cardinality(Positions("login")) = 1
              /\ \A k \in Positions("login") :
                    \A i \in Positions("send_message") : k < i
              /\ logged_in = <<<<args.username[1],
                                 IF args.password = None THEN "" ELSE args.password[1]>>>>

\* no password given: login is called with ""
C5_Witness ==
    /\ pc = "returned"
    /\ args.username = Some("user") /\ args.password = None
    /\ logged_in = <<<<"user", "">>>>
    /\ sent = <<msg>>

(* C6: an error of quit or close never changes the outcome of send: after  *)
(* a successful send_message send returns normally, and after a failed     *)
(* starttls, login or send_message the error surfaced is that failure.     *)
C6_CleanupNeverChangesOutcome ==
    (pc = "returned" /\ Opened)
        => /\ sent # <<>> => raised = NoErr
           /\ pending.at \in {"starttls", "login", "send_message"} => raised = pending

(* C7: once the transport is opened, every exit of send has called quit    *)
(* exactly once, and close after it whenever quit failed.                  *)
C7_QuitThenCloseOnFailure ==
    (pc = "returned" /\ Opened)
        => /\ Cardinality(Positions("quit")) = 1
           /\ env["quit"] \in ErrorKinds
                  => \E k \in Positions("close") : \A q \in Positions("quit") : q < k

(* C8: a list with a non-blank entry and the string joining it with commas *)
(* both normalise to the trimmed, non-empty entries of the list.           *)
C8_ListAndStringNormaliseAlike ==
    (/\ pc \notin {"idle", "constructed", "recipients"}
     /\ params.recipients.kind = "list"
     /\ TrimmedNonEmpty(params.recipients.val) # <<>>)
        => /\ to_addrs = TrimmedNonEmpty(params.recipients.val)
           /\ _ensure_list(RecipStr(join(<<",">>, params.recipients.val)))
                  = TrimmedNonEmpty(params.recipients.val)

(* C9, as claimed: the sender is the given sender unless it is None, else  *)
(* the username unless it is None, else the placeholder, and is the From   *)
(* header of every message sent.                                           *)
C9_SenderUnlessNone ==
    pc # "idle"
        => /\ self.sender = IF args.sender # None THEN args.sender[1]
                            ELSE IF args.username # None THEN args.username[1]
                            ELSE "noreply@example.com"
           /\ \A i \in 1..Len(sent) : sent[i].From = self.sender

(* C9, amended: the sender is the given sender unless it is None or empty, *)
(* else the username unless it is None or empty, else the placeholder, and *)
(* is the From header of every message sent.                               *)
C9_SenderUnlessEmpty ==
    pc # "idle"
        => /\ self.sender = IF args.sender \notin {None, Some("")} THEN args.sender[1]
                            ELSE IF args.username \notin {None, Some("")} THEN args.username[1]
                            ELSE "noreply@example.com"
           /\ \A i \in 1..Len(sent) : sent[i].From = self.sender

\* an empty sender falls back to the username, which the message carries
C9_Witness ==
    /\ pc = "returned"
    /\ args.sender = Some("") /\ args.username = Some("user")
    /\ Len(sent) = 1 /\ sent[1].From = "user"

(* C10: send_email and EmailSender.send, given the same arguments and the  *)
(* same collaborator, make the same transport calls with the same          *)
(* arguments and end the same way.                                         *)
C10_LegacySameAsClass ==
    Len(history) = 2
        => /\ history[1].api = "EmailSender" /\ history[2].api = "send_email"
           /\ history[2].calls = history[1].calls
           /\ history[2].session = history[1].session
           /\ history[2].logged_in = history[1].logged_in
           /\ history[2].sent = history[1].sent
           /\ history[2].raised = history[1].raised

\* both calls went through STARTTLS and login and failed in send_message
C10_Witness ==
    /\ Len(history) = 2
    /\ history[2].api = "send_email"
    /\ history[2].calls = <<"SMTP", "ehlo", "starttls", "ehlo", "login", "send_message", "quit">>
    /\ history[2].raised = Err("SMTPServerDisconnected", "send_message")

(* C11: in a run where the first ehlo, starttls or the second ehlo raised, *)
(* neither login nor send_message is ever called; in a run where login     *)
(* raised, send_message is never called.                                   *)
C11_NothingSentAfterFailedUpgrade ==
    InSend
        => /\ pending.at \in {"ehlo1", "starttls", "ehlo2"}
                  => /\ Positions("login") = {}
                     /\ Positions("send_message") = {}
                     /\ logged_in = <<>>
                     /\ sent = <<>>
           /\ pending.at = "login"
                  => /\ Positions("send_message") = {}
                     /\ sent = <<>>

\* starttls raised on a sender with credentials: the run ended without login
C11_Witness ==
    /\ pc = "returned"
    /\ pending.at = "starttls"
    /\ args.username = Some("user")
    /\ calls = <<"SMTP", "ehlo", "starttls", "quit">>

====
